---- MODULE Spec2Model ----
(***************************************************************************)
(* The provider-scoped replace-and-rollback sessions of the repository:    *)
(*   OR_T  openrouter_pipeline/01_scripts/T_refresh_supabase_working_version.py *)
(*   OR_U  openrouter_pipeline/01_scripts/U_deploy_to_ai_models_main.py    *)
(*   G_T   google_pipeline/T_supabase_working_version_refresh.py           *)
(*   G_U   google_pipeline/U_ai_models_main_deploy.py                      *)
(* Each script's main() is a sequential session against a remote table.    *)
(* Every store call (select, count, delete, insert) either raises, or      *)
(* returns; a delete may leave residual rows and an insert may return      *)
(* fewer rows than submitted.  The table is modelled per provider tag by   *)
(* the number of rows of each origin: rows present before the session      *)
(* (orig), rows inserted from the candidate dataset (cand) and rows         *)
(* re-inserted from the snapshot (rest).                                   *)
(***************************************************************************)
EXTENDS Integers, Sequences, FiniteSets, TLC

\* ---------------------------------------------------------------- bounds
MaxRows == 3      \* rows the session's scope may hold before the session
OtherRows == 1    \* rows held by the other provider's scope
MaxCand == 10     \* records in the raw candidate dataset
BatchSize == 2    \* batch_size of the restore loop (50 in the source), scaled
                  \* so that a snapshot of MaxRows rows spans several batches
WideCand == 40    \* largest candidate dataset of the wide sessions (5% of it is 2)
WideRows == 20    \* largest snapshot of the wide sessions (5% of it is 1 row)
MaxRecords == 6   \* records handed to db_utils.insert_records_batch
DbRows == 1       \* committed rows of the table before that call
DbPageSize == 2   \* page_size of execute_batch (batch_size = 100 in the source), scaled
NumStages == 4    \* configured stages of an orchestrator (6 and 19 in the source), scaled
MaxLetters == 2   \* script letters typed in the OpenRouter selection menu

\* ------------------------------------------------------ program constants
InsertPctStaging == 90      \* success_rate >= 0.9
InsertPctProduction == 95   \* success_rate >= 0.95
RestorePctStaging == 95     \* final_count >= len(backup_data) * 0.95
RestorePctProduction == 90  \* final_count >= len(backup_data) * 0.9
TolerancePct == 5           \* int(expected_count * 0.05)
ToleranceFloor == 1         \* max(1, ...)

Scripts == {"OR_T", "OR_U", "G_T", "G_U"}
Providers == {"OpenRouter", "Google"}

IsOR(s) == s \in {"OR_T", "OR_U"}
IsProduction(s) == s \in {"OR_U", "G_U"}

INFERENCE_PROVIDER(s) == IF IsOR(s) THEN "OpenRouter" ELSE "Google"
OtherProvider(s) == IF IsOR(s) THEN "Google" ELSE "OpenRouter"

\* ---------------------------------------------------------------- records
\* A record: its provider tag, whether its required fields are non-empty,
\* whether it carries the auto-managed fields id/created_at/updated_at, and
\* its origin (candidate dataset or snapshot).
Rec(p, v, a, c) == [prov |-> p, valid |-> v, auto |-> a, cls |-> c]

StripAuto(r) == [r EXCEPT !.auto = FALSE]

Strip(recs) == [k \in DOMAIN recs |-> StripAuto(recs[k])]

\* The raw candidate dataset handed to a session: m records; optionally the
\* first carries another provider's tag and the last has an empty required
\* field; hasAuto: the records carry id/created_at/updated_at columns.
RawDataset(s, m, foreign, invalid, hasAuto) ==
    [k \in 1..m |->
        Rec(IF foreign /\ k = 1 THEN OtherProvider(s) ELSE INFERENCE_PROVIDER(s),
            ~(invalid /\ k = m), hasAuto, "cand")]

\* ------------------------------------------------------------------ store
EmptyScope == [orig |-> 0, cand |-> 0, rest |-> 0]

Count(st, p) == st[p].orig + st[p].cand + st[p].rest

InsertOne(st, r) == [st EXCEPT ![r.prov][r.cls] = @ + 1]

RECURSIVE InsertRows(_, _)
InsertRows(st, recs) ==
    IF recs = <<>> THEN st
    ELSE InsertRows(InsertOne(st, Head(recs)), Tail(recs))

\* delete().eq("inference_provider", p) leaving k of the rows behind
\* (k = 0: the delete removed every row of the scope).
DeleteLeaving(st, p, k) == [st EXCEPT ![p] = [EmptyScope EXCEPT !.orig = k]]

\* select("*").eq("inference_provider", p): the rows as stored, each with
\* its auto-managed fields.
Select(st, p) == [k \in 1..Count(st, p) |-> Rec(p, TRUE, TRUE, "rest")]

Prefix(seq, k) == SubSeq(seq, 1, k)

None == -1      \* a count query that failed returns None
Raised == -1    \* a store call that raised

VARIABLES
    script,         \* which script's main() this session runs
    raw,            \* the raw candidate dataset (file rows or staging rows)
    store,          \* the target table
    pre,            \* the target table when the session started
    pc,             \* position in main()
    result,         \* the session's terminal state ("" while running)
    retval,         \* what main() returned
    models,         \* prepared_models / prepared_data / pipeline_data
    backup_data,    \* the snapshot held by main() (<<>> when none)
    backup_ok,      \* the backup step returned success
    backup_file,    \* the snapshot was written to BACKUP_FILE (Google)
    backup_text,    \* what BACKUP_FILE holds (<<>>: no file)
    i,              \* loop index of the individual insert fallback
    successful,     \* successful_inserts / inserted_count
    failed,         \* failed_inserts / len(errors)
    bi,             \* first index of the current restore batch
    bj,             \* index inside the batch of the individual restore
    restored_count,
    failed_count,
    stage,          \* outcome of each stage: "" | "ok" | "fail"
    calls,          \* store mutations issued so far, by kind
    sent,           \* what the insert payloads carried so far
    final_count,    \* result of the latest verification count (None: failed or none yet)
    bulk_result,    \* what the insert stage's bulk call did: "" (not issued) |
                    \* "raised" | "short" (fewer rows than submitted) | "all"
    db_pc,          \* position in db_utils.insert_records_batch ("idle": not called)
    db_records,     \* its argument records: per record, whether it has every
                    \* column of the first record
    db_table,       \* committed rows of the table
    db_pending,     \* rows inserted in the connection's open transaction
    db_page,        \* index of the first record of the next page of execute_batch
    db_conn,        \* "open" | "closed" (the connection was lost)
    db_ret,         \* "" | "True" | "False" | "raised" (an exception left the function)
    z_pc,           \* position in a pipeline orchestrator ("idle": not running)
    z_script,       \* "G" (Z_run_A_to_F.py) | "OR" (Z_run_A_to_S.py)
    selected_scripts, \* indices into the configured stage list, in run order
    z_i,            \* position of the loop in selected_scripts
    execution_log,  \* stage_results / execution_log: <<stage index, success>>
    failed_stage,   \* self.failed_stage (0: None)
    z_report,       \* "" (not generated) | "saved" | "unsaved" (writing failed)
    z_ret           \* "" | "True" | "False"

vars == <<script, raw, store, pre, pc, result, retval, models, backup_data,
          backup_ok, backup_file, backup_text, i, successful, failed, bi, bj,
          restored_count, failed_count, stage, calls, sent, final_count,
          bulk_result, db_pc, db_records, db_table, db_pending, db_page,
          db_conn, db_ret, z_pc, z_script, selected_scripts, z_i,
          execution_log, failed_stage, z_report, z_ret>>

orchVars == <<z_pc, z_script, selected_scripts, z_i, execution_log, failed_stage,
              z_report, z_ret>>

\* No orchestrator is running.
OrchIdle ==
    /\ z_pc = "idle" /\ z_script = "" /\ selected_scripts = <<>> /\ z_i = 0
    /\ execution_log = <<>> /\ failed_stage = 0 /\ z_report = "" /\ z_ret = ""

dbVars == <<db_pc, db_records, db_table, db_pending, db_page, db_conn, db_ret>>

\* db_utils is not in use.
DbIdle ==
    /\ db_pc = "idle" /\ db_records = <<>> /\ db_table = 0 /\ db_pending = 0
    /\ db_page = 0 /\ db_conn = "open" /\ db_ret = ""

loopVars == <<i, successful, failed>>
restoreVars == <<bi, bj, restored_count, failed_count>>

NoStage == [backup |-> "", delete |-> "", insert |-> "", verify |-> "", rollback |-> ""]
NoCalls == [delete |-> 0, bulk |-> 0, single |-> 0, restore |-> 0]
NothingSent == [foreign |-> FALSE, auto |-> FALSE]

\* What an insert call with this payload adds to the record of payloads.
Sent(old, payload) ==
    [foreign |-> old.foreign \/ \E k \in DOMAIN payload : payload[k].prov /= INFERENCE_PROVIDER(script),
     auto    |-> old.auto \/ \E k \in DOMAIN payload : payload[k].auto]

Init ==
    /\ script \in Scripts
    /\ \E m \in 1..MaxCand, foreign \in BOOLEAN, invalid \in BOOLEAN, hasAuto \in BOOLEAN :
          \* a deploy reads its candidates from the staging table with
          \* .eq("inference_provider", ...): rows of the scope, with id
          /\ IsProduction(script) => (~foreign /\ hasAuto)
          /\ raw = RawDataset(script, m, foreign, invalid, hasAuto)
    /\ \E n \in 0..MaxRows :
          store = [p \in Providers |->
                     IF p = INFERENCE_PROVIDER(script)
                     THEN [EmptyScope EXCEPT !.orig = n]
                     ELSE [EmptyScope EXCEPT !.orig = OtherRows]]
    /\ pre = store
    /\ pc = "load"
    /\ result = ""
    /\ retval = FALSE
    /\ models = <<>>
    /\ backup_data = <<>>
    /\ backup_ok = FALSE
    /\ backup_file = FALSE
    /\ backup_text = <<>>
    /\ i = 0 /\ successful = 0 /\ failed = 0
    /\ bi = 0 /\ bj = 0 /\ restored_count = 0 /\ failed_count = 0
    /\ stage = NoStage
    /\ calls = NoCalls
    /\ sent = NothingSent
    /\ final_count = None
    /\ bulk_result = ""
    /\ DbIdle
    /\ OrchIdle

\* main() returns: the session ends in terminal state r.
Return(r, v) ==
    /\ pc' = "done"
    /\ result' = r
    /\ retval' = v


\* A step of main(): to the next stage, or return in a terminal state.
Terminal == {"INIT", "ABORTED", "VERIFIED", "ROLLED_BACK", "ROLLBACK_FAILED",
             "FAILED_NO_ROLLBACK"}

Goto(next) ==
    IF next \in Terminal
    THEN Return(next, next = "VERIFIED")
    ELSE pc' = next /\ UNCHANGED <<result, retval>>


Min(a, b) == IF a < b THEN a ELSE b
Max(a, b) == IF a > b THEN a ELSE b
Abs(a) == IF a < 0 THEN 0 - a ELSE a

\* =================================================== OpenRouter T and U

\* Variants of OR_main with one edge changed: a failed backup that goes on
\* to the delete; a failed verification that returns without the rollback;
\* a failed delete that is followed by the rollback; a failed rollback that
\* is tried again.
OR_main_retry_rollback(at, ok) ==
    CASE at = "load"    -> IF ok THEN "backup" ELSE "INIT"
      [] at = "backup"  -> IF ok THEN "delete" ELSE "ABORTED"
      [] at = "delete"  -> IF ok THEN "insert" ELSE "ABORTED"
      [] at = "insert"  -> IF ok THEN "verify" ELSE "restore"
      [] at = "verify"  -> IF ok THEN "VERIFIED" ELSE "restore"
      [] at = "restore" -> IF ok THEN "ROLLED_BACK" ELSE "restore"
OR_main_rollback_on_delete_failure(at, ok) ==
    CASE at = "load"    -> IF ok THEN "backup" ELSE "INIT"
      [] at = "backup"  -> IF ok THEN "delete" ELSE "ABORTED"
      [] at = "delete"  -> IF ok THEN "insert" ELSE "restore"
      [] at = "insert"  -> IF ok THEN "verify" ELSE "restore"
      [] at = "verify"  -> IF ok THEN "VERIFIED" ELSE "restore"
      [] at = "restore" -> IF ok THEN "ROLLED_BACK" ELSE "ROLLBACK_FAILED"
OR_main_delete_without_backup(at, ok) ==
    CASE at = "load"    -> IF ok THEN "backup" ELSE "INIT"
      [] at = "backup"  -> "delete"
      [] at = "delete"  -> IF ok THEN "insert" ELSE "ABORTED"
      [] at = "insert"  -> IF ok THEN "verify" ELSE "restore"
      [] at = "verify"  -> IF ok THEN "VERIFIED" ELSE "restore"
      [] at = "restore" -> IF ok THEN "ROLLED_BACK" ELSE "ROLLBACK_FAILED"
OR_main_no_rollback_on_verify(at, ok) ==
    CASE at = "load"    -> IF ok THEN "backup" ELSE "INIT"
      [] at = "backup"  -> IF ok THEN "delete" ELSE "ABORTED"
      [] at = "delete"  -> IF ok THEN "insert" ELSE "ABORTED"
      [] at = "insert"  -> IF ok THEN "verify" ELSE "restore"
      [] at = "verify"  -> IF ok THEN "VERIFIED" ELSE "ABORTED"
      [] at = "restore" -> IF ok THEN "ROLLED_BACK" ELSE "ROLLBACK_FAILED"
\* main(): which stage follows stage `at`, given what the stage returned.
OR_main(at, ok) ==
    CASE at = "load"    -> IF ok THEN "backup" ELSE "INIT"
      [] at = "backup"  -> IF ok THEN "delete" ELSE "ABORTED"
      [] at = "delete"  -> IF ok THEN "insert" ELSE "ABORTED"
      [] at = "insert"  -> IF ok THEN "verify" ELSE "restore"
      [] at = "verify"  -> IF ok THEN "VERIFIED" ELSE "restore"
      [] at = "restore" -> IF ok THEN "ROLLED_BACK" ELSE "ROLLBACK_FAILED"

\* load_finalized_json (OR_T): the first model must carry every expected
\* field (id, created_at, updated_at among them); models of another
\* provider or with an empty required field are skipped; None (<<>>) when
\* nothing valid is left.
IsValidOpenRouterModel(r) == r.prov = "OpenRouter" /\ r.valid

load_finalized_json(rawd) ==
    IF rawd = <<>> \/ ~rawd[1].auto THEN <<>>
    ELSE SelectSeq(rawd, IsValidOpenRouterModel)

\* load_staging_OpenRouter_data (OR_U): the staging rows of the provider.
IsOpenRouterRow(r) == r.prov = "OpenRouter"

load_staging_OpenRouter_data(rawd) == SelectSeq(rawd, IsOpenRouterRow)

\* prepare_data_for_insert / prepare_data_for_production.
prepare_data_for_insert(loaded) == Strip(loaded)

\* main() steps 1-4: connect, query the initial counts, load and prepare.
OR_Load ==
    /\ pc = "load" /\ IsOR(script)
    /\ \E ok \in BOOLEAN :
         LET loaded == IF script = "OR_T" THEN load_finalized_json(raw)
                       ELSE load_staging_OpenRouter_data(raw)
             prepared == prepare_data_for_insert(loaded)
             good == ok /\ prepared /= <<>>
         IN /\ models' = IF good THEN prepared ELSE <<>>
            /\ Goto(OR_main("load", good))
    /\ UNCHANGED <<orchVars, dbVars, final_count, bulk_result, script, raw, store, pre, backup_data, backup_ok, backup_file, backup_text,
                   loopVars, restoreVars, stage, calls, sent>>

\* backup_existing_openrouter_data / backup_production_OpenRouter_data.
OR_Backup ==
    /\ pc = "backup" /\ IsOR(script)
    /\ \E ok \in BOOLEAN :
         /\ backup_data' = IF ok THEN Select(store, INFERENCE_PROVIDER(script)) ELSE <<>>
         /\ backup_ok' = ok
         /\ stage' = [stage EXCEPT !.backup = IF ok THEN "ok" ELSE "fail"]
         /\ Goto(OR_main("backup", ok))
    /\ UNCHANGED <<orchVars, dbVars, final_count, bulk_result, script, raw, store, pre, models, backup_file, backup_text,
                   loopVars, restoreVars, calls, sent>>

\* "if remaining_count == 0: return True else: return False"
\* Variant: the recount is not looked at.
deletion_verified_unchecked(remaining_count) == TRUE

deletion_verified(remaining_count) == remaining_count = 0

\* "if initial_count is None: return False" / "if initial_count == 0:
\* return True": the delete call is issued only for a scope that holds rows.
\* Variant: the call is issued whenever the count was answered.
delete_issued_on_empty_scope(initial_count) == initial_count /= None

delete_issued(initial_count) == initial_count /= None /\ initial_count /= 0

\* delete_existing_openrouter_data / delete_production_OpenRouter_data.
OR_Delete ==
    /\ pc = "delete" /\ IsOR(script)
    /\ LET p == INFERENCE_PROVIDER(script)
           n == Count(store, p)
       IN \E countOk \in BOOLEAN, left \in Raised..n, recountOk \in BOOLEAN :
            LET initial_count == IF countOk THEN n ELSE None
                issued == delete_issued(initial_count)
                after == IF issued /\ left /= Raised
                         THEN DeleteLeaving(store, p, left) ELSE store
                remaining_count == IF recountOk THEN Count(after, p) ELSE None
                ok == CASE initial_count = None -> FALSE
                        [] initial_count = 0    -> TRUE
                        [] left = Raised        -> FALSE
                        [] OTHER                -> deletion_verified(remaining_count)
            IN /\ store' = after
               /\ calls' = [calls EXCEPT !.delete = IF issued THEN @ + 1 ELSE @]
               /\ stage' = [stage EXCEPT !.delete = IF ok THEN "ok" ELSE "fail"]
               /\ Goto(OR_main("delete", ok))
    /\ UNCHANGED <<orchVars, dbVars, final_count, bulk_result, script, raw, pre, models, backup_data, backup_ok, backup_file, backup_text,
                   loopVars, restoreVars, sent>>

\* success_rate >= 0.9 (insert_new_data) / >= 0.95 (deploy_to_production)
rate_acceptable_above(s, ok_count, total) ==
    ok_count * 100 > (IF IsProduction(s) THEN InsertPctProduction ELSE InsertPctStaging) * total
InsertPct(s) == IF IsProduction(s) THEN InsertPctProduction ELSE InsertPctStaging

rate_acceptable(s, ok_count, total) == ok_count * 100 >= InsertPct(s) * total

\* The response of the insert stage's bulk call to k submitted records.
BulkResponse(k, submitted) ==
    CASE k = Raised    -> "raised"
      [] k < submitted -> "short"
      [] OTHER         -> "all"

\* insert_new_data / deploy_to_production: the bulk attempt.  The call
\* raises (Raised), or stores and returns the first k records.
OR_BulkInsert ==
    /\ pc = "insert" /\ IsOR(script)
    /\ \E k \in Raised..Len(models) :
         LET inserted_count == IF k = Raised THEN 0 ELSE k
             done == k /= Raised /\ inserted_count = Len(models)
         IN /\ store' = InsertRows(store, Prefix(models, inserted_count))
            /\ stage' = [stage EXCEPT !.insert = IF done THEN "ok" ELSE @]
            /\ IF done THEN Goto(OR_main("insert", TRUE))
               ELSE pc' = "fallback" /\ UNCHANGED <<result, retval>>
            /\ bulk_result' = BulkResponse(k, Len(models))
    /\ calls' = [calls EXCEPT !.bulk = @ + 1]
    /\ sent' = Sent(sent, models)
    /\ i' = 0 /\ successful' = 0 /\ failed' = 0
    /\ UNCHANGED <<orchVars, dbVars, final_count, script, raw, pre, models, backup_data, backup_ok, backup_file, backup_text,
                   restoreVars>>

\* Variant of the loop below that stops at the first record that fails.
OR_IndividualInsert_stop_at_failure ==
    /\ pc = "fallback" /\ IsOR(script) /\ i < Len(models)
    /\ \E o \in {"row", "nodata", "raise"} :
         LET model == models[i + 1]
         IN /\ store' = IF o = "row" THEN InsertOne(store, model) ELSE store
            /\ successful' = IF o = "row" THEN successful + 1 ELSE successful
            /\ failed' = IF o = "row" THEN failed ELSE failed + 1
            /\ sent' = Sent(sent, <<model>>)
            /\ i' = IF o = "row" THEN i + 1 ELSE Len(models)
    /\ calls' = [calls EXCEPT !.single = @ + 1]
    /\ UNCHANGED <<orchVars, dbVars, final_count, bulk_result, script, raw, pre, pc, result, retval, models, backup_data,
                   backup_ok, backup_file, backup_text, restoreVars, stage>>

\* The individual fallback loop, one record per step: the insert returns
\* the row, returns no data, or raises.
OR_IndividualInsert ==
    /\ pc = "fallback" /\ IsOR(script) /\ i < Len(models)
    /\ \E o \in {"row", "nodata", "raise"} :
         LET model == models[i + 1]
         IN /\ store' = IF o = "row" THEN InsertOne(store, model) ELSE store
            /\ successful' = IF o = "row" THEN successful + 1 ELSE successful
            /\ failed' = IF o = "row" THEN failed ELSE failed + 1
            /\ sent' = Sent(sent, <<model>>)
    /\ i' = i + 1
    /\ calls' = [calls EXCEPT !.single = @ + 1]
    /\ UNCHANGED <<orchVars, dbVars, final_count, bulk_result, script, raw, pre, pc, result, retval, models, backup_data,
                   backup_ok, backup_file, backup_text, restoreVars, stage>>

\* After the loop: the success-rate decision.
OR_InsertResult ==
    /\ pc = "fallback" /\ IsOR(script) /\ i = Len(models)
    /\ LET ok == rate_acceptable(script, successful, Len(models))
       IN /\ stage' = [stage EXCEPT !.insert = IF ok THEN "ok" ELSE "fail"]
          /\ Goto(OR_main("insert", ok))
    /\ UNCHANGED <<orchVars, dbVars, final_count, bulk_result, script, raw, store, pre, models, backup_data, backup_ok,
                   backup_file, backup_text, loopVars, restoreVars, calls, sent>>

\* verify_insertion (exact) / verify_production_deployment (tolerance).
\* Variant: the tolerance without its percentage part.
Tolerance_floor_only(expected_count) == ToleranceFloor
Tolerance(expected_count) == Max(ToleranceFloor, (expected_count * TolerancePct) \div 100)

count_accepted(s, counted, expected_count) ==
    IF IsProduction(s)
    THEN Abs(counted - expected_count) <= Tolerance(expected_count)
    ELSE counted = expected_count

OR_Verify ==
    /\ pc = "verify" /\ IsOR(script)
    /\ \E countOk \in BOOLEAN :
         LET counted == IF countOk THEN Count(store, INFERENCE_PROVIDER(script)) ELSE None
             ok == counted /= None /\ count_accepted(script, counted, Len(models))
         IN /\ final_count' = counted
            /\ stage' = [stage EXCEPT !.verify = IF ok THEN "ok" ELSE "fail"]
            /\ Goto(OR_main("verify", ok))
    /\ UNCHANGED <<orchVars, dbVars, bulk_result, script, raw, store, pre, models, backup_data, backup_ok,
                   backup_file, backup_text, loopVars, restoreVars, calls, sent>>


\* ------------------------------------------------ OpenRouter rollback
\* restore_backup_data / restore_production_backup.

\* "if final_count >= len(backup_data) * 0.95" (OR_T; None raises TypeError,
\* caught: False) / "if final_count and final_count >= len(...) * 0.9" (OR_U)
RestorePct(s) == IF IsProduction(s) THEN RestorePctProduction ELSE RestorePctStaging

restoration_accepted(s, counted, n) ==
    /\ counted /= None
    /\ counted * 100 >= n * RestorePct(s)

clean_backup_data == Strip(backup_data)

Batch(from) == SubSeq(clean_backup_data, from, Min(from + BatchSize - 1, Len(clean_backup_data)))

\* Entry: "if not backup_data: return True"; else the loop starts.
OR_RestoreStart ==
    /\ pc = "restore" /\ IsOR(script)
    /\ calls' = [calls EXCEPT !.restore = @ + 1]
    /\ IF backup_data = <<>>
       THEN /\ stage' = [stage EXCEPT !.rollback = "ok"]
            /\ Goto(OR_main("restore", TRUE))
            /\ UNCHANGED restoreVars
       ELSE /\ pc' = "batch"
            /\ bi' = 1 /\ bj' = 0 /\ restored_count' = 0 /\ failed_count' = 0
            /\ UNCHANGED <<result, retval, stage>>
    /\ UNCHANGED <<orchVars, dbVars, final_count, bulk_result, script, raw, store, pre, models, backup_data, backup_ok,
                   backup_file, backup_text, loopVars, sent>>

\* One batch insert: raises, returns no data, or stores and returns the
\* first k records of the batch.
OR_RestoreBatch ==
    /\ pc = "batch" /\ IsOR(script) /\ bi <= Len(backup_data)
    /\ LET batch == Batch(bi)
       IN \E k \in Raised..Len(batch) :
            /\ store' = IF k > 0 THEN InsertRows(store, Prefix(batch, k)) ELSE store
            /\ restored_count' = IF k > 0 THEN restored_count + k ELSE restored_count
            /\ failed_count' = IF k > 0 THEN failed_count ELSE failed_count + Len(batch)
            /\ sent' = Sent(sent, batch)
            /\ IF k = Raised
               THEN pc' = "batchEach" /\ bj' = 1 /\ bi' = bi
               ELSE pc' = "batch" /\ bj' = 0 /\ bi' = bi + BatchSize
    /\ calls' = [calls EXCEPT !.bulk = @ + 1]
    /\ UNCHANGED <<orchVars, dbVars, final_count, bulk_result, script, raw, pre, result, retval, models, backup_data,
                   backup_ok, backup_file, backup_text, loopVars, stage>>

\* The individual fallback for the batch that raised, one record per step.
OR_RestoreIndividual ==
    /\ pc = "batchEach" /\ IsOR(script)
    /\ LET batch == Batch(bi)
           record == batch[bj]
       IN /\ \E o \in {"row", "nodata", "raise"} :
               /\ store' = IF o = "row" THEN InsertOne(store, record) ELSE store
               /\ restored_count' = IF o = "row" THEN restored_count + 1 ELSE restored_count
               /\ failed_count' = IF o = "row" THEN failed_count - 1 ELSE failed_count
          /\ sent' = Sent(sent, <<record>>)
          /\ IF bj < Len(batch)
             THEN pc' = "batchEach" /\ bj' = bj + 1 /\ bi' = bi
             ELSE pc' = "batch" /\ bj' = 0 /\ bi' = bi + BatchSize
    /\ calls' = [calls EXCEPT !.single = @ + 1]
    /\ UNCHANGED <<orchVars, dbVars, final_count, bulk_result, script, raw, pre, result, retval, models, backup_data,
                   backup_ok, backup_file, backup_text, loopVars, stage>>

\* After the loop: "Verify restoration".
OR_RestoreVerify ==
    /\ pc = "batch" /\ IsOR(script) /\ bi > Len(backup_data)
    /\ \E countOk \in BOOLEAN :
         LET counted == IF countOk THEN Count(store, INFERENCE_PROVIDER(script)) ELSE None
             ok == restoration_accepted(script, counted, Len(backup_data))
         IN /\ final_count' = counted
            /\ stage' = [stage EXCEPT !.rollback = IF ok THEN "ok" ELSE "fail"]
            /\ Goto(OR_main("restore", ok))
    /\ UNCHANGED <<orchVars, dbVars, bulk_result, script, raw, store, pre, models, backup_data, backup_ok,
                   backup_file, backup_text, loopVars, restoreVars, calls, sent>>


\* ======================================================= Google T and U

\* main(): a failed backup is reported and the session continues;
\* a failed delete aborts; the final test decides the return value.
G_main(at, ok) ==
    CASE at = "load"   -> IF ok THEN "backup" ELSE "INIT"
      [] at = "backup" -> "delete"
      [] at = "delete" -> IF ok THEN "insert" ELSE "ABORTED"
      [] at = "finish" -> IF ok THEN "VERIFIED" ELSE "FAILED_NO_ROLLBACK"

\* load_pipeline_data (G_T): the CSV rows as read.
load_pipeline_data(rawd) == rawd

\* load_source_data (G_U): the staging rows of the provider.
IsGoogleRow(r) == r.prov = "Google"

load_source_data(rawd) == SelectSeq(rawd, IsGoogleRow)

G_Load ==
    /\ pc = "load" /\ ~IsOR(script)
    /\ \E ok \in BOOLEAN :
         LET loaded == IF script = "G_T" THEN load_pipeline_data(raw)
                       ELSE load_source_data(raw)
             good == ok /\ loaded /= <<>>
         IN /\ models' = IF good THEN loaded ELSE <<>>
            /\ Goto(G_main("load", good))
    /\ UNCHANGED <<orchVars, dbVars, final_count, bulk_result, script, raw, store, pre, backup_data, backup_ok, backup_file, backup_text,
                   loopVars, restoreVars, stage, calls, sent>>

\* json.dump(existing_data, f, indent=2, default=str): each row becomes a
\* JSON object, its booleans the tokens true / false; json_load is the
\* reading back of such a file.
\* Variant: a dump that leaves the auto-managed fields out.
json_dump_row_without_auto(r) ==
    [prov |-> r.prov, cls |-> r.cls,
     valid |-> IF r.valid THEN "true" ELSE "false", auto |-> "false"]

json_dump_row(r) ==
    [prov |-> r.prov, cls |-> r.cls,
     valid |-> IF r.valid THEN "true" ELSE "false",
     auto  |-> IF r.auto THEN "true" ELSE "false"]

json_dump(recs) == [k \in DOMAIN recs |-> json_dump_row(recs[k])]

json_load(text) ==
    [k \in DOMAIN text |->
        Rec(text[k].prov, text[k].valid = "true", text[k].auto = "true", text[k].cls)]

\* backup_existing_data / backup_production_data: select, then write the
\* rows to BACKUP_FILE when there are any; either may raise.
G_Backup ==
    /\ pc = "backup" /\ ~IsOR(script)
    /\ \E selectOk \in BOOLEAN, writeOk \in BOOLEAN :
         LET existing_data == IF selectOk THEN Select(store, INFERENCE_PROVIDER(script)) ELSE <<>>
             written == selectOk /\ existing_data /= <<>> /\ writeOk
             ok == selectOk /\ (existing_data = <<>> \/ writeOk)
         IN /\ backup_file' = written
            /\ backup_text' = IF written THEN json_dump(existing_data) ELSE <<>>
            /\ backup_ok' = ok
            /\ stage' = [stage EXCEPT !.backup = IF ok THEN "ok" ELSE "fail"]
            /\ Goto(G_main("backup", ok))
    /\ UNCHANGED <<orchVars, dbVars, final_count, bulk_result, script, raw, store, pre, models, backup_data,
                   loopVars, restoreVars, calls, sent>>

\* delete_existing_data / delete_production_data: the delete call raises,
\* or removes rows (leaving `left`); when the response carries no data a
\* check query follows, whose result is only printed.
G_Delete ==
    /\ pc = "delete" /\ ~IsOR(script)
    /\ LET p == INFERENCE_PROVIDER(script)
           n == Count(store, p)
       IN \E left \in Raised..n, dataNone \in BOOLEAN, checkOk \in BOOLEAN :
            LET ok == left /= Raised /\ (~dataNone \/ checkOk)
            IN /\ store' = IF left = Raised THEN store ELSE DeleteLeaving(store, p, left)
               /\ stage' = [stage EXCEPT !.delete = IF ok THEN "ok" ELSE "fail"]
               /\ Goto(G_main("delete", ok))
    /\ calls' = [calls EXCEPT !.delete = @ + 1]
    /\ UNCHANGED <<orchVars, dbVars, final_count, bulk_result, script, raw, pre, models, backup_data, backup_ok, backup_file, backup_text,
                   loopVars, restoreVars, sent>>

\* clean_record_for_production (G_U only; G_T sends the rows as loaded).
clean_record_for_production(r) == StripAuto(r)

G_payload(s, recs) ==
    IF s = "G_U" THEN [k \in DOMAIN recs |-> clean_record_for_production(recs[k])]
    ELSE recs

\* validate_data_record / validate_production_record.
validate_data_record(r) == r.valid /\ r.prov = "Google"

\* insert_data_bulk / insert_production_data_bulk: success when the
\* response carries any row.
G_BulkInsert ==
    /\ pc = "insert" /\ ~IsOR(script)
    /\ LET data == G_payload(script, models)
       IN /\ \E k \in Raised..Len(data) :
               LET bulk_success == k > 0
               IN /\ store' = IF bulk_success THEN InsertRows(store, Prefix(data, k)) ELSE store
                  /\ successful' = IF bulk_success THEN k ELSE 0
                  /\ failed' = IF bulk_success THEN 0 ELSE 1
                  /\ pc' = IF bulk_success THEN "finish" ELSE "fallback"
                  /\ bulk_result' = BulkResponse(k, Len(data))
          /\ sent' = Sent(sent, data)
    /\ i' = 0
    /\ calls' = [calls EXCEPT !.bulk = @ + 1]
    /\ UNCHANGED <<orchVars, dbVars, final_count, script, raw, pre, result, retval, models, backup_data,
                   backup_ok, backup_file, backup_text, restoreVars, stage>>

\* insert_data_individual / insert_production_data_individual, one record
\* per step: a record failing validation is skipped without a call.
G_IndividualInsert ==
    /\ pc = "fallback" /\ ~IsOR(script) /\ i < Len(models)
    /\ LET record == G_payload(script, models)[i + 1]
           is_valid == validate_data_record(record)
       IN \E o \in {"row", "nodata", "raise"} :
            LET stored == is_valid /\ o = "row"
            IN /\ store' = IF stored THEN InsertOne(store, record) ELSE store
               /\ successful' = IF i = 0 THEN (IF stored THEN 1 ELSE 0)
                                ELSE IF stored THEN successful + 1 ELSE successful
               /\ failed' = IF i = 0 THEN (IF stored THEN 0 ELSE 1)
                            ELSE IF stored THEN failed ELSE failed + 1
               /\ sent' = IF is_valid THEN Sent(sent, <<record>>) ELSE sent
               /\ calls' = [calls EXCEPT !.single = IF is_valid THEN @ + 1 ELSE @]
    /\ i' = i + 1
    /\ pc' = IF i + 1 = Len(models) THEN "finish" ELSE "fallback"
    /\ UNCHANGED <<orchVars, dbVars, final_count, bulk_result, script, raw, pre, result, retval, models, backup_data,
                   backup_ok, backup_file, backup_text, restoreVars, stage>>

\* verify_production_deployment (G_U): the count must equal inserted_count.
G_count_matches(actual_count, expected_count) == actual_count = expected_count

\* "if inserted_count > 0 [and verification_success]: return True"
session_succeeded(s, inserted_count, verification_success) ==
    inserted_count > 0 /\ (s = "G_U" => verification_success)

G_Finish ==
    /\ pc = "finish" /\ ~IsOR(script)
    /\ \E selectOk \in BOOLEAN :
         LET actual_count == Count(store, INFERENCE_PROVIDER(script))
             verification_success == selectOk /\ G_count_matches(actual_count, successful)
             ok == session_succeeded(script, successful, verification_success)
         IN /\ final_count' = IF script = "G_U" /\ selectOk THEN actual_count ELSE None
            /\ stage' = [stage EXCEPT
                           !.insert = IF successful > 0 THEN "ok" ELSE "fail",
                           !.verify = IF script = "G_U"
                                      THEN (IF verification_success THEN "ok" ELSE "fail")
                                      ELSE @]
            /\ Goto(G_main("finish", ok))
    /\ UNCHANGED <<orchVars, dbVars, bulk_result, script, raw, store, pre, models, backup_data, backup_ok,
                   backup_file, backup_text, loopVars, restoreVars, calls, sent>>

\* ================================================================= Spec
Next ==
    \/ OR_Load \/ OR_Backup \/ OR_Delete
    \/ OR_BulkInsert \/ OR_IndividualInsert \/ OR_InsertResult \/ OR_Verify
    \/ OR_RestoreStart \/ OR_RestoreBatch \/ OR_RestoreIndividual \/ OR_RestoreVerify
    \/ G_Load \/ G_Backup \/ G_Delete
    \/ G_BulkInsert \/ G_IndividualInsert \/ G_Finish

Spec == Init /\ [][Next]_vars

\* The OpenRouter sessions on larger inputs, where the percentage thresholds
\* fall between whole rows: either a large candidate dataset against a scope
\* of at most one row, or a small dataset against a large scope.  The
\* candidates are well-formed rows of the scope.
InitWide ==
    /\ script \in {"OR_T", "OR_U"}
    /\ \E m \in {1, 2, WideCand \div 2, WideCand}, n \in {0, 1, WideRows \div 2, WideRows} :
          /\ (m > 2) => (n <= 1)
          /\ (m <= 2) => (n > 1)
          /\ raw = RawDataset(script, m, FALSE, FALSE, TRUE)
          /\ store = [p \in Providers |->
                        IF p = INFERENCE_PROVIDER(script)
                        THEN [EmptyScope EXCEPT !.orig = n]
                        ELSE [EmptyScope EXCEPT !.orig = OtherRows]]
    /\ pre = store
    /\ pc = "load"
    /\ result = ""
    /\ retval = FALSE
    /\ models = <<>>
    /\ backup_data = <<>>
    /\ backup_ok = FALSE
    /\ backup_file = FALSE
    /\ backup_text = <<>>
    /\ i = 0 /\ successful = 0 /\ failed = 0
    /\ bi = 0 /\ bj = 0 /\ restored_count = 0 /\ failed_count = 0
    /\ stage = NoStage
    /\ calls = NoCalls
    /\ sent = NothingSent
    /\ final_count = None
    /\ bulk_result = ""
    /\ DbIdle
    /\ OrchIdle

NextOR ==
    \/ OR_Load \/ OR_Backup \/ OR_Delete
    \/ OR_BulkInsert \/ OR_IndividualInsert \/ OR_InsertResult \/ OR_Verify
    \/ OR_RestoreStart \/ OR_RestoreBatch \/ OR_RestoreIndividual \/ OR_RestoreVerify

SpecWide == InitWide /\ [][NextOR]_vars


\* ============================================================= db_utils
\* insert_records_batch(conn, table_name, records, batch_size) on a
\* connection of get_pipeline_db_connection (autocommit off).  A call on the
\* connection succeeds, fails with a database error, or fails because the
\* connection was lost; on a lost connection conn.rollback() raises as well.

sessionVars == <<script, raw, store, pre, pc, result, retval, models, backup_data,
                 backup_ok, backup_file, backup_text, i, successful, failed, bi, bj,
                 restored_count, failed_count, stage, calls, sent, final_count,
                 bulk_result>>

\* No refresh/deploy session is running; db_utils is called with 0 to
\* MaxRecords records, one of which (never the first) may lack a column of
\* the first record.
NoSession(name) ==
    /\ script = name
    /\ raw = <<>>
    /\ store = [p \in Providers |-> EmptyScope]
    /\ pre = store
    /\ pc = "done"
    /\ result = ""
    /\ retval = FALSE
    /\ models = <<>>
    /\ backup_data = <<>>
    /\ backup_ok = FALSE
    /\ backup_file = FALSE
    /\ backup_text = <<>>
    /\ i = 0 /\ successful = 0 /\ failed = 0
    /\ bi = 0 /\ bj = 0 /\ restored_count = 0 /\ failed_count = 0
    /\ stage = NoStage
    /\ calls = NoCalls
    /\ sent = NothingSent
    /\ final_count = None
    /\ bulk_result = ""

InitDb ==
    /\ NoSession("db_utils")
    /\ OrchIdle
    /\ \E n \in 0..MaxRecords, lacking \in 0..MaxRecords :
          /\ lacking /= 1 /\ lacking <= n
          /\ db_records = [k \in 1..n |-> k /= lacking]
    /\ db_table = DbRows
    /\ db_pending = 0
    /\ db_page = 0
    /\ db_conn = "open"
    /\ db_ret = ""
    /\ db_pc = "call"

\* "values = [tuple(record[col] for col in columns) for record in records]"
\* raises KeyError when a record lacks a column of the first record.
values_built(records) == \A k \in DOMAIN records : records[k]

\* "if not records: return True"; then the columns, the statement and the
\* value tuples are built.
DB_Call ==
    /\ db_pc = "call"
    /\ IF db_records = <<>>
       THEN db_pc' = "done" /\ db_ret' = "True" /\ db_page' = db_page
       ELSE IF values_built(db_records)
       THEN db_pc' = "execute" /\ db_ret' = db_ret /\ db_page' = 1
       ELSE db_pc' = "except" /\ db_ret' = db_ret /\ db_page' = db_page
    /\ UNCHANGED <<db_records, db_table, db_pending, db_conn, orchVars, sessionVars>>

\* execute_batch: one page of INSERT statements per round trip.
DB_ExecutePage ==
    /\ db_pc = "execute" /\ db_page <= Len(db_records)
    /\ LET page == Min(DbPageSize, Len(db_records) - db_page + 1)
       IN \E o \in {"ok", "error", "closed"} :
            /\ db_pending' = CASE o = "ok"     -> db_pending + page
                               [] o = "error"  -> db_pending
                               [] o = "closed" -> 0
            /\ db_conn' = IF o = "closed" THEN "closed" ELSE db_conn
            /\ db_pc' = IF o = "ok" THEN "execute" ELSE "except"
            /\ db_page' = IF o = "ok" THEN db_page + DbPageSize ELSE db_page
    /\ UNCHANGED <<db_records, db_table, db_ret, orchVars, sessionVars>>

\* conn.commit(); return True.  When the connection is lost during the
\* commit the transaction may or may not have been applied.
DB_Commit ==
    /\ db_pc = "execute" /\ db_page > Len(db_records)
    /\ \E o \in {"ok", "error", "closed"}, applied \in BOOLEAN :
         /\ applied <=> (o = "ok" \/ (o = "closed" /\ applied))
         /\ db_table' = IF applied THEN db_table + db_pending ELSE db_table
         /\ db_pending' = IF o = "error" THEN db_pending ELSE 0
         /\ db_conn' = IF o = "closed" THEN "closed" ELSE db_conn
         /\ db_pc' = IF o = "ok" THEN "done" ELSE "except"
         /\ db_ret' = IF o = "ok" THEN "True" ELSE db_ret
    /\ UNCHANGED <<db_records, db_page, orchVars, sessionVars>>

\* "except Exception: logger.error(...); conn.rollback(); return False"
DB_Except ==
    /\ db_pc = "except"
    /\ db_pending' = 0
    /\ db_ret' = IF db_conn = "open" THEN "False" ELSE "raised"
    /\ db_pc' = "done"
    /\ UNCHANGED <<db_records, db_table, db_page, db_conn, orchVars, sessionVars>>

NextDb == DB_Call \/ DB_ExecutePage \/ DB_Commit \/ DB_Except

SpecDb == InitDb /\ [][NextDb]_vars

\* ======================================================== orchestrators
\* GooglePipelineOrchestrator.run_pipeline (Z_run_A_to_F.py) and main of
\* Z_run_A_to_S.py.  A stage is the index of its script in the configured
\* list; running a script succeeds or fails (missing script, missing input,
\* non-zero return code, timeout, exception).

pipeline_scripts == [k \in 1..NumStages |-> k]

Occurrences(seq, v) == Cardinality({k \in DOMAIN seq : seq[k] = v})

\* "sorted(zip(indices, selected))": the typed letters in pipeline order,
\* a letter typed twice kept twice.
sorted(letters) ==
    CHOOSE q \in [1..Len(letters) -> 1..NumStages] :
        /\ \A k \in 1..(Len(letters) - 1) : q[k] <= q[k + 1]
        /\ \A v \in 1..NumStages : Occurrences(q, v) = Occurrences(letters, v)

\* get_user_script_selection: all scripts, a range, or specific letters.
Selections ==
    \* "0 <= start_idx <= end_idx < len(pipeline_scripts)": for start > end
    \* the prompt is repeated; SubSeq is then <<>>, which "specific letters"
    \* with an empty line selects.
    {pipeline_scripts}
    \cup {SubSeq(pipeline_scripts, a, b) : a \in 1..NumStages, b \in 1..NumStages}
    \cup {sorted(l) : l \in UNION {[1..n -> 1..NumStages] : n \in 0..MaxLetters}}

\* generate_pipeline_report: writing the file may fail (caught); the
\* OpenRouter report divides by the number of logged stages inside its try.
ReportOutcomes(kind, log) ==
    IF kind = "OR" /\ log = <<>> THEN {"unsaved"} ELSE {"saved", "unsaved"}

InitOrch ==
    /\ NoSession("orchestrator")
    /\ DbIdle
    /\ z_pc = "start"
    /\ z_script \in {"G", "OR"}
    /\ selected_scripts = <<>>
    /\ z_i = 0
    /\ execution_log = <<>>
    /\ failed_stage = 0
    /\ z_report = ""
    /\ z_ret = ""

\* run_pipeline up to the loop: validate_dependencies, then the start
\* stage (0: none given, NumStages + 1: a name that is not a stage).
G_run_pipeline ==
    /\ z_pc = "start" /\ z_script = "G"
    /\ \E dependencies \in BOOLEAN, start_from_stage \in 0..(NumStages + 1) :
         IF ~dependencies \/ start_from_stage = NumStages + 1
         THEN /\ z_pc' = "done" /\ z_ret' = "False"
              /\ UNCHANGED <<selected_scripts, z_i>>
         ELSE LET start_index == IF start_from_stage = 0 THEN 1 ELSE start_from_stage
              IN /\ selected_scripts' = SubSeq(pipeline_scripts, start_index, NumStages)
                 /\ z_i' = 1
                 /\ z_pc' = "loop" /\ z_ret' = z_ret
    /\ UNCHANGED <<z_script, execution_log, failed_stage, z_report, dbVars, sessionVars>>

\* The loop keeps running after a failed stage.
G_execute_script_no_break ==
    /\ z_pc = "loop" /\ z_script = "G" /\ z_i <= Len(selected_scripts)
    /\ \E success \in BOOLEAN :
         /\ execution_log' = Append(execution_log, <<selected_scripts[z_i], success>>)
         /\ failed_stage' = IF success THEN failed_stage ELSE selected_scripts[z_i]
         /\ z_i' = z_i + 1
         /\ z_pc' = "loop"
    /\ UNCHANGED <<z_script, selected_scripts, z_report, z_ret, dbVars, sessionVars>>

\* One pass of the loop of run_pipeline: execute_script, record the stage
\* result, break on failure.
G_execute_script ==
    /\ z_pc = "loop" /\ z_script = "G" /\ z_i <= Len(selected_scripts)
    /\ \E success \in BOOLEAN :
         /\ execution_log' = Append(execution_log, <<selected_scripts[z_i], success>>)
         /\ failed_stage' = IF success THEN failed_stage ELSE selected_scripts[z_i]
         /\ z_i' = IF success THEN z_i + 1 ELSE z_i
         /\ z_pc' = IF success THEN "loop" ELSE "report"
    /\ UNCHANGED <<z_script, selected_scripts, z_report, z_ret, dbVars, sessionVars>>

\* After the loop: generate_pipeline_report, then the return value from
\* self.failed_stage.
G_finish ==
    /\ z_script = "G"
    /\ z_pc = "report" \/ (z_pc = "loop" /\ z_i > Len(selected_scripts))
    /\ z_report' \in ReportOutcomes(z_script, execution_log)
    /\ z_ret' = IF failed_stage /= 0 THEN "False" ELSE "True"
    /\ z_pc' = "done"
    /\ UNCHANGED <<z_script, selected_scripts, z_i, execution_log, failed_stage,
                   dbVars, sessionVars>>

\* main up to the loop: setup_environment, the selection menu and the
\* confirmation prompt.
OR_Z_main ==
    /\ z_pc = "start" /\ z_script = "OR"
    /\ \E setup \in BOOLEAN, confirm \in BOOLEAN, selection \in Selections :
         IF ~setup \/ ~confirm
         THEN /\ z_pc' = "done" /\ z_ret' = "False"
              /\ UNCHANGED <<selected_scripts, z_i>>
         ELSE /\ selected_scripts' = selection
              /\ z_i' = 1
              /\ z_pc' = "loop" /\ z_ret' = z_ret
    /\ UNCHANGED <<z_script, execution_log, failed_stage, z_report, dbVars, sessionVars>>

\* One pass of the loop of main: run_script, log it; on failure generate
\* the report and return False.
OR_run_script ==
    /\ z_pc = "loop" /\ z_script = "OR" /\ z_i <= Len(selected_scripts)
    /\ \E success \in BOOLEAN :
         LET log == Append(execution_log, <<selected_scripts[z_i], success>>)
         IN /\ execution_log' = log
            /\ IF success
               THEN /\ z_i' = z_i + 1
                    /\ UNCHANGED <<z_pc, z_report, z_ret>>
               ELSE /\ z_report' \in ReportOutcomes(z_script, log)
                    /\ z_ret' = "False"
                    /\ z_pc' = "done"
                    /\ z_i' = z_i
    /\ UNCHANGED <<z_script, selected_scripts, failed_stage, dbVars, sessionVars>>

\* After the loop: generate_pipeline_report and return True.
OR_Z_finish ==
    /\ z_pc = "loop" /\ z_script = "OR" /\ z_i > Len(selected_scripts)
    /\ z_report' \in ReportOutcomes(z_script, execution_log)
    /\ z_ret' = "True"
    /\ z_pc' = "done"
    /\ UNCHANGED <<z_script, selected_scripts, z_i, execution_log, failed_stage,
                   dbVars, sessionVars>>

NextOrch ==
    \/ G_run_pipeline \/ G_execute_script \/ G_finish
    \/ OR_Z_main \/ OR_run_script \/ OR_Z_finish

SpecOrch == InitOrch /\ [][NextOrch]_vars

\* =============================================================== claims
Scope == INFERENCE_PROVIDER(script)
Done == pc = "done"
NoInsertIssued == calls.bulk = 0 /\ calls.single = 0

\* C1: in the OpenRouter refresh and deploy, the delete stage is entered and
\* a scoped delete issued only after the backup returned successfully; when
\* the backup fails the session returns failure (ABORTED) with no delete and
\* no insert issued.
C1_DeleteOnlyAfterBackup ==
    IsOR(script) =>
        /\ (calls.delete > 0 \/ stage.delete /= "" \/ pc = "delete") => stage.backup = "ok" /\ backup_ok
        /\ stage.backup = "fail" =>
              /\ Done /\ result = "ABORTED" /\ ~retval
              /\ calls.delete = 0 /\ NoInsertIssued

\* C1 witness: an OpenRouter session has issued its delete after a
\* successful backup of a non-empty scope.
C1_Witness ==
    /\ IsOR(script) /\ calls.delete = 1 /\ stage.backup = "ok"
    /\ Len(backup_data) > 0

\* C2: in the Google refresh and deploy a scoped delete is issued only after
\* the backup returned success; a failed backup means no delete and no
\* insert runs.
C2_GoogleDeleteOnlyAfterBackup ==
    ~IsOR(script) =>
        /\ calls.delete > 0 => stage.backup = "ok"
        /\ stage.backup = "fail" => calls.delete = 0 /\ NoInsertIssued

\* C3: whenever an OpenRouter session ends because the delete stage reported
\* failure, the scope holds exactly the rows it held before the session.
C3_DeleteFailureLeavesStoreIntact ==
    (IsOR(script) /\ Done /\ stage.delete = "fail") => store[Scope] = pre[Scope]

\* C4: an OpenRouter session that passed the delete stage ends only in
\* VERIFIED, ROLLED_BACK or ROLLBACK_FAILED; when the insert or the verify
\* stage failed the rollback was invoked (once, with the session's snapshot)
\* and the session ends in ROLLED_BACK or ROLLBACK_FAILED.
C4_RollbackAfterInsertOrVerifyFailure ==
    (IsOR(script) /\ stage.delete = "ok") =>
        /\ Done => result \in {"VERIFIED", "ROLLED_BACK", "ROLLBACK_FAILED"}
        /\ (stage.insert = "fail" \/ stage.verify = "fail") =>
              IF Done
              THEN calls.restore = 1 /\ result \in {"ROLLED_BACK", "ROLLBACK_FAILED"}
              ELSE pc \in {"restore", "batch", "batchEach"}
        /\ (Done /\ result = "VERIFIED") => calls.restore = 0

\* C4 witness: a session whose verification failed after a successful
\* delete and insert, rolled back from a non-empty snapshot.
C4_Witness ==
    /\ IsOR(script) /\ Done /\ stage.delete = "ok" /\ stage.insert = "ok"
    /\ stage.verify = "fail" /\ result = "ROLLED_BACK" /\ Len(backup_data) > 0

\* C5: in an OpenRouter session, if the insert stage fails after a
\* successful delete, then the scope's row count after the rollback is
\* within 10% of its count before the session, or the session ends in
\* ROLLBACK_FAILED.
C5_RollbackRestoresCardinality ==
    (IsOR(script) /\ Done /\ stage.delete = "ok" /\ stage.insert = "fail") =>
        \/ result = "ROLLBACK_FAILED"
        \/ Abs(Count(store, Scope) - Count(pre, Scope)) * 10 <= Count(pre, Scope)

\* C6: whenever a session with a candidate set of size M returns True, the
\* scope's row count equals M within the profile's tolerance: exactly M in
\* staging, within max(1, 5% of M) in production.
C6_ReplacementNotUnion ==
    (Done /\ retval) =>
        LET M == Len(models)
            d == Abs(Count(store, Scope) - M)
        IN IF IsProduction(script) THEN d * 100 <= Max(100, 5 * M) ELSE d = 0

\* C7: a session for one scope leaves the rows of the other scope unchanged
\* and sends no insert payload carrying a record of another provider.
C7_ScopeIsolation ==
    /\ store[OtherProvider(script)] = pre[OtherProvider(script)]
    /\ ~sent.foreign

\* C8: no record passed to a store insert call, on the primary path or on the
\* rollback path, contains id, created_at or updated_at.
C8_NoAutoFieldLeakage == ~sent.auto

\* C9: in the OpenRouter staging refresh, when the delete succeeded, the bulk
\* insert stored nothing, the individual fallback inserted at least 90% but
\* fewer than all of the candidates, and the verification's count query was
\* answered, the verification passes, no rollback is invoked and the
\* session ends in VERIFIED.
C9_StagingAcceptsNinetyPercent ==
    (/\ script = "OR_T" /\ stage.delete = "ok" /\ stage.insert = "ok"
     /\ i = Len(models) /\ calls.single = Len(models)
     /\ store[Scope].cand = successful
     /\ successful * 100 >= InsertPctStaging * Len(models)
     /\ successful < Len(models)
     /\ stage.verify /= "" /\ stage.rollback = "" /\ final_count /= None)
        => /\ stage.verify = "ok" /\ calls.restore = 0
           /\ Done => result = "VERIFIED"

\* C10: the delete stage reports success only if the scope held no row
\* after the delete call: when the session moves on to the insert stage the
\* scope is empty.
C10_DeleteSuccessMeansEmptyScope ==
    (stage.delete = "ok" /\ pc = "insert") => Count(store, Scope) = 0

\* C11: in an OpenRouter session, when the delete stage reports failure the
\* session returns failure at once (ABORTED): no insert is issued and the
\* rollback is not invoked.
C11_DeleteFailureReturnsImmediately ==
    (IsOR(script) /\ stage.delete = "fail") =>
        /\ Done /\ result = "ABORTED" /\ ~retval
        /\ NoInsertIssued /\ calls.restore = 0

\* C11 witness: the delete call was issued on a non-empty scope and the
\* stage reported failure.
C11_Witness ==
    /\ IsOR(script) /\ Done /\ stage.delete = "fail" /\ calls.delete = 1
    /\ Len(backup_data) > 0

\* The insert stage's individual loop has been entered.
FellBack == pc = "fallback" \/ i > 0

\* C12: in every script the insert stage issues exactly one bulk insert
\* before anything else, and the one-at-a-time loop is entered if and only
\* if that bulk call raised or returned fewer rows than were submitted; a
\* bulk call that returned some but not all rows triggers the fallback.
C12_FallbackIffBulkShort ==
    /\ FellBack => bulk_result \in {"raised", "short"}
    /\ (bulk_result \in {"raised", "short"}) => FellBack
    /\ bulk_result = "all" => ~FellBack
    /\ bulk_result = "" => calls.bulk = 0 /\ calls.single = 0
    /\ (stage.insert /= "" \/ pc \in {"fallback", "verify", "finish"}) => bulk_result /= ""
    /\ calls.restore = 0 => calls.bulk <= 1
    /\ i <= Len(models)

C14_ProductionCountTolerance ==
    (script = "OR_U" /\ stage.verify /= "" /\ stage.rollback = "") =>
        LET E == Len(models)
            d == Abs(final_count - E)
        IN /\ (stage.verify = "ok") <=> (final_count /= None /\ d * 100 <= Max(100, 5 * E))
           /\ stage.verify = "ok" => Done /\ result = "VERIFIED" /\ retval

\* C14 witness: 40 candidates, 38 rows counted: the tolerance is 2 and the
\* deploy ends VERIFIED.
C14_Witness ==
    /\ script = "OR_U" /\ Len(models) = 40 /\ final_count = 38
    /\ stage.verify = "ok" /\ result = "VERIFIED"

\* C15: in both OpenRouter scripts a rollback of a non-empty snapshot of
\* N rows reports Restored if and only if the scope's row count after the
\* restore inserts (as answered by the count query) is at least 0.90 * N,
\* and the session then ends in ROLLED_BACK.
C15_RestoreAcceptsNinetyPercent ==
    (/\ IsOR(script) /\ stage.rollback /= "" /\ Len(backup_data) > 0
     /\ final_count /= None)
        => /\ (stage.rollback = "ok") <=> (final_count * 10 >= 9 * Len(backup_data))
           /\ stage.rollback = "ok" => Done /\ result = "ROLLED_BACK"

\* C16: in a Google session, whenever the delete succeeded and then the
\* insert stage failed (nothing inserted) or the verification failed, the
\* session restores the scope from its backup and ends reporting the
\* rollback's outcome (ROLLED_BACK or ROLLBACK_FAILED), not with the scope
\* left emptied.
C16_GoogleRollsBackOnFailure ==
    (/\ ~IsOR(script) /\ Done /\ stage.delete = "ok"
     /\ (stage.insert = "fail" \/ stage.verify = "fail"))
        => /\ calls.restore = 1
           /\ result \in {"ROLLED_BACK", "ROLLBACK_FAILED"}

\* C17: in every OpenRouter session the scoped delete call is issued at most
\* once and the rollback is invoked at most once; once a rollback has
\* reported failure the session has ended in ROLLBACK_FAILED and no step
\* changes the store or issues a store call afterwards.
C17_NoRetry ==
    /\ [](IsOR(script) =>
            /\ calls.delete <= 1 /\ calls.restore <= 1
            /\ stage.rollback = "fail" => Done /\ result = "ROLLBACK_FAILED" /\ ~retval)
    /\ [][(IsOR(script) /\ stage.rollback = "fail") => UNCHANGED <<store, calls>>]_vars

\* C17 witness: a session whose single rollback, after a single delete,
\* reported failure.
C17_Witness ==
    /\ IsOR(script) /\ Done /\ result = "ROLLBACK_FAILED"
    /\ stage.rollback = "fail" /\ calls.delete = 1 /\ calls.restore = 1

\* C18: in every script, when the backup step has returned success for a
\* scope that holds rows, the rows the select returned have been written to
\* a file: the artifact exists before any delete is issued, so it outlives
\* a crash of the process between the delete and the verification.
C18_BackupIsDurable ==
    (stage.backup = "ok" /\ Count(pre, Scope) > 0) => backup_file

\* C19: during an OpenRouter rollback the batches are issued one after the
\* other; a batch that fails (its insert raises or returns no rows, so that
\* its records are added to failed_count) is followed by single inserts of
\* that batch's records before the next batch is issued, and a batch that
\* did not fail is followed directly by the next batch.
C19_FailedBatchRetriedIndividually ==
    [][ IsOR(script) =>
          /\ (pc = "batch" /\ bi <= Len(backup_data)) =>
                /\ calls'.bulk = calls.bulk + 1 /\ calls'.single = calls.single
                /\ IF failed_count' > failed_count
                   THEN pc' = "batchEach" /\ bi' = bi /\ bj' = 1
                   ELSE pc' = "batch" /\ bi' = bi + BatchSize
          /\ pc = "batchEach" =>
                /\ calls'.single = calls.single + 1 /\ calls'.bulk = calls.bulk
                /\ bj \in 1..Len(Batch(bi))
                /\ IF bj < Len(Batch(bi))
                   THEN pc' = "batchEach" /\ bi' = bi /\ bj' = bj + 1
                   ELSE pc' = "batch" /\ bi' = bi + BatchSize
      ]_vars

\* C20: in the individual-insert fallback of every script, a record with an
\* empty required field or with a provider other than the session's scope
\* is counted as failed and no store insert call is issued for it.
C20_InvalidRecordNotSent ==
    [][ (/\ pc = "fallback" /\ i < Len(models)
         /\ ~(models[i + 1].valid /\ models[i + 1].prov = Scope))
        => /\ i' = i + 1
           /\ calls'.single = calls.single /\ store' = store
           /\ successful' = (IF i = 0 THEN 0 ELSE successful)
           /\ failed' = (IF i = 0 THEN 0 ELSE failed) + 1
      ]_vars

\* C21: in the individual-insert fallback every record of the submitted
\* sequence is processed exactly once, whether or not earlier records
\* failed: each step takes the next record and either issues one insert
\* call for it or rejects it locally, the records processed so far are
\* counted as inserted or as failed, and the loop is left only after the
\* last record, with inserted + failed equal to the number submitted.
C21_EveryRecordProcessedOnce ==
    /\ [](/\ i <= Len(models)
          /\ (FellBack /\ i > 0) => successful + failed = i
          /\ (FellBack /\ pc /= "fallback") =>
                i = Len(models) /\ successful + failed = Len(models))
    /\ [][ (pc = "fallback" /\ i < Len(models)) =>
             /\ i' = i + 1
             /\ \/ calls'.single = calls.single + 1
                \/ calls'.single = calls.single /\ store' = store
                      /\ failed' = (IF i = 0 THEN 0 ELSE failed) + 1
             /\ pc' = "fallback" \/ (pc' = "finish" /\ i' = Len(models))
       ]_vars

\* C21 witness: a completed fallback over at least three records in which
\* some records failed and others were inserted.
C21_Witness ==
    /\ FellBack /\ pc /= "fallback" /\ i = Len(models) /\ Len(models) >= 3
    /\ failed >= 1 /\ successful >= 2

\* C22: an OpenRouter refresh on a scope that holds no rows, whose bulk
\* insert returned all M candidates and whose verification count was
\* answered, ends in VERIFIED with M rows in the scope; no delete call and
\* no restore is issued.
C22_EmptyScopeRefresh ==
    (/\ script = "OR_T" /\ Count(pre, Scope) = 0 /\ bulk_result = "all"
     /\ stage.verify /= "" /\ final_count /= None)
        => /\ Done /\ result = "VERIFIED" /\ retval
           /\ Count(store, Scope) = Len(models)
           /\ calls.delete = 0 /\ calls.restore = 0

\* C22 witness: such a refresh with the largest candidate set.
C22_Witness ==
    /\ script = "OR_T" /\ Count(pre, Scope) = 0 /\ bulk_result = "all"
    /\ Len(models) = MaxCand /\ Done /\ result = "VERIFIED"
    /\ Count(store, Scope) = MaxCand

\* C23: every session runs on until main() returns, and it returns in one
\* of the terminal states ABORTED (a failure before or at the delete; a
\* failed load counts as such), VERIFIED, ROLLED_BACK or ROLLBACK_FAILED;
\* once the delete has succeeded it returns only with insert and
\* verification successful or with a rollback outcome.
C23_EndsInOneTerminalState ==
    /\ Done \/ ENABLED Next
    /\ Done <=> result /= ""
    /\ Done => result \in {"INIT", "ABORTED", "VERIFIED", "ROLLED_BACK", "ROLLBACK_FAILED"}
    /\ (Done /\ stage.delete = "ok") =>
          \/ result = "VERIFIED" /\ stage.insert = "ok" /\ stage.verify \in {"ok", ""}
          \/ result \in {"ROLLED_BACK", "ROLLBACK_FAILED"} /\ stage.rollback /= ""

\* The records the backup step captured: the list main() holds
\* (OpenRouter) or what BACKUP_FILE reads back as (Google).
Captured == IF IsOR(script) THEN backup_data ELSE json_load(backup_text)

InRollback == pc \in {"restore", "batch", "batchEach"} \/ calls.restore > 0

\* C25: in an OpenRouter session the rollback is invoked only after the
\* scoped delete of the same session has succeeded, and no snapshot record
\* is re-inserted while rows from before the session are still in the
\* scope.
C25_RollbackOnlyAfterDelete ==
    IsOR(script) =>
        /\ InRollback => stage.delete = "ok" /\ stage.backup = "ok"
        /\ (InRollback \/ store[Scope].rest > 0) => store[Scope].orig = 0

\* C25 witness: a rollback is re-inserting the snapshot after the delete
\* call removed the original rows.
C25_Witness ==
    /\ IsOR(script) /\ calls.restore = 1 /\ calls.delete = 1
    /\ store[Scope].rest > 0 /\ Count(pre, Scope) > 0

\* C26: whenever an OpenRouter session ends in ROLLED_BACK, the scope holds
\* exactly the snapshot's records (re-inserted without their auto-managed
\* fields): no candidate record inserted earlier in the session remains.
C26_RolledBackMeansSnapshotOnly ==
    (IsOR(script) /\ Done /\ result = "ROLLED_BACK") =>
        /\ store[Scope].cand = 0
        /\ store[Scope].orig = 0
        /\ store[Scope].rest = Len(backup_data)

\* C27: in the OpenRouter insert stage no candidate record is added to the
\* store more than once: when the stage has returned, the rows it added to
\* the scope number at most the submitted records, also when the bulk
\* insert stored part of them before the individual fallback ran.
C27_NoCandidateInsertedTwice ==
    (IsOR(script) /\ stage.insert /= "") => store[Scope].cand <= Len(models)

\* C28: insert_records_batch is all-or-nothing: it either commits every
\* record and returns True, or leaves the table unchanged and returns
\* False; it returns False when a record lacks a column of the first
\* record, and True without touching the table for an empty list.
C28_BatchInsertAllOrNothing ==
    db_pc = "done" =>
        /\ db_pending = 0
        /\ \/ db_ret = "True" /\ db_table = DbRows + Len(db_records)
           \/ db_ret = "False" /\ db_table = DbRows
        /\ ~values_built(db_records) => db_ret = "False"
        /\ db_records = <<>> => db_ret = "True"

\* C29: an orchestrator runs the selected stages in the configured order
\* and stops at the first stage that fails: the executed stages are a
\* prefix of the selection, only the last executed stage can have failed,
\* a run with a failed stage still generates the report and returns False,
\* and a run returns True only if every selected stage ran and succeeded.
C29_StagesInOrderStopAtFailure ==
    LET n == Len(execution_log)
        stage_failed == n > 0 /\ ~execution_log[n][2]
    IN /\ \A k \in 1..(Len(selected_scripts) - 1) :
            selected_scripts[k] <= selected_scripts[k + 1]
       /\ n <= Len(selected_scripts)
       /\ \A k \in 1..n : execution_log[k][1] = selected_scripts[k]
       /\ \A k \in 1..(n - 1) : execution_log[k][2]
       /\ (z_pc = "done" /\ stage_failed) => z_report /= "" /\ z_ret = "False"
       /\ z_ret = "True" =>
            /\ n = Len(selected_scripts)
            /\ \A k \in 1..n : execution_log[k][2]

\* A stage failed while selected stages were still to run; the run ended
\* with the report generated and False returned.
C29_Witness ==
    /\ z_pc = "done" /\ z_ret = "False" /\ z_report /= ""
    /\ execution_log /= <<>>
    /\ ~execution_log[Len(execution_log)][2]
    /\ Len(execution_log) < Len(selected_scripts)
    /\ Len(execution_log) > 1

\* C30: in the OpenRouter rollback loop, after every batch failed_count is
\* not negative and restored_count + failed_count is the number of
\* snapshot records processed so far (the snapshot size on completion),
\* and restored_count is the number of rows the restore added to the store.
C30_RestoreCountersAddUp ==
    (IsOR(script) /\ pc = "batch") =>
        /\ failed_count >= 0
        /\ restored_count + failed_count = Min(bi - 1, Len(backup_data))
        /\ restored_count = store[Scope].rest

====
